---- MODULE Spec2Model ----
(***************************************************************************)
(* The namespace and item-resolution core of the analyzer                  *)
(* (crates/analyzer/src/namespace/items.rs): items, module scopes, path    *)
(* resolution, canonical paths and the diagnostics walk of an ingot.       *)
(*                                                                         *)
(* The database is frozen after setup: its interned records and query      *)
(* results are the variables chosen in Init.  Every action applies one     *)
(* operation of items.rs to inputs drawn from small sets and records the   *)
(* call and what it returned in `call`.                                    *)
(***************************************************************************)
EXTENDS Integers, Sequences, FiniteSets, TLC

VARIABLES
    ingots,                 \* IngotId -> interned Ingot record
    modules,                \* ModuleId -> interned Module record
    functions,              \* FunctionId -> interned Function record
    ingot_root_module,      \* IngotId -> ModuleId, or NoId
    module_parent_module,   \* ModuleId -> ModuleId, or NoId
    db,                     \* what the ingot builder interned and registered
    sink_vec,               \* a Vec<Diagnostic> used as DiagnosticSink
    pushed,                 \* every diagnostic handed to the sink, in call order
    call                    \* the last operation applied, with its result

vars == <<ingots, modules, functions, ingot_root_module, module_parent_module,
          db, sink_vec, pushed, call>>

\* Everything but the call: what an operation that only reads leaves alone.
world == <<ingots, modules, functions, ingot_root_module, module_parent_module,
           db, sink_vec, pushed>>

\* The database that the analysis operations read.
analysed == <<ingots, modules, functions, ingot_root_module, module_parent_module>>

(***************************************************************************)
(* Bounds                                                                  *)
(***************************************************************************)
MaxPathLen == 3

\* The number of builder calls (from_files, new_standalone, ModuleId::new)
\* made on one database.
MaxCalls == 2

\* The number of diagnostics a sink holds.
MaxSinkLen == 4

\* The number of add_edge calls that build a dependency graph to walk.
MaxEdges == 3

\* The number of add_node and add_edge calls that build each of two graphs
\* to compare.
MaxGraphOps == 2

(***************************************************************************)
(* Identifiers.  Every ID is an integer issued by the interner; NoId       *)
(* stands for Option::None of an ID.                                       *)
(***************************************************************************)
NoId == 0

IngotIds == 1..3
ModuleIds == 1..5
FunctionIds == 1..2
EventIds == 1..2
PrimitiveIds == 1..3

\* The ingot under compilation, its dependency and a standalone ingot.
AppIngot == 1
StdIngot == 2
SoloIngot == 3

(***************************************************************************)
(* Item: the tagged union.  TypeDef's variants (Alias, Struct, Contract,   *)
(* Primitive) are the kinds for which IsType holds.                        *)
(***************************************************************************)
MkItem(k, i) == [kind |-> k, id |-> i]

ItemIngot(i) == MkItem("Ingot", i)
ItemModule(m) == MkItem("Module", m)
ItemContract(c) == MkItem("Contract", c)
ItemStruct(s) == MkItem("Struct", s)
ItemAlias(a) == MkItem("Alias", a)
ItemPrimitive(p) == MkItem("Primitive", p)
ItemGenericType(g) == MkItem("GenericType", g)
ItemEvent(e) == MkItem("Event", e)
ItemFunction(f) == MkItem("Function", f)
ItemConstant(c) == MkItem("Constant", c)
ItemBuiltinFunction(b) == MkItem("BuiltinFunction", b)
ItemIntrinsic(i) == MkItem("Intrinsic", i)
ItemObject(o) == MkItem("Object", o)

\* Option<Item>::None
NoItem == MkItem("None", NoId)

TypeKinds == {"Alias", "Struct", "Contract", "Primitive"}

IsType(item) == item.kind \in TypeKinds

Items ==
    {ItemIngot(i) : i \in IngotIds} \cup {ItemModule(m) : m \in ModuleIds}
    \cup {ItemContract(1), ItemStruct(1), ItemAlias(1)}
    \cup {ItemPrimitive(p) : p \in PrimitiveIds}
    \cup {ItemGenericType(1)}
    \cup {ItemEvent(e) : e \in EventIds}
    \cup {ItemFunction(f) : f \in FunctionIds}
    \cup {ItemConstant(1), ItemBuiltinFunction(1), ItemIntrinsic(1), ItemObject(1)}

(***************************************************************************)
(* Maps from names to items (IndexMap<SmolStr, Item>).  Collecting a chain *)
(* of entries into an IndexMap keeps, for a key that occurs twice, the     *)
(* value of the later entry.                                               *)
(***************************************************************************)
EmptyMap == [n \in {} |-> NoItem]

Entry(n, item) == [k \in {n} |-> item]

Chain(first, second) ==
    [n \in (DOMAIN first) \cup (DOMAIN second) |->
        IF n \in DOMAIN second THEN second[n] ELSE first[n]]

Get(map, n) == IF n \in DOMAIN map THEN map[n] ELSE NoItem

(***************************************************************************)
(* The interned records.  Contracts, structs, aliases, events and          *)
(* constants are fixed; the ingot under compilation, its first module and  *)
(* the first function vary with Init.                                      *)
(***************************************************************************)
Modes == {"Main", "Lib", "StandaloneModule"}

\* struct Contract { name, ast, module }
ContractData(c) == [name |-> "Foo", module |-> 1]

\* struct Struct { ast, module }
StructData(s) == [name |-> "S", module |-> 2]

\* struct TypeAlias { ast, module }
TypeAliasData(a) == [name |-> "T", module |-> 3]

\* struct ModuleConstant { ast, module }
ModuleConstantData(c) == [name |-> "K", module |-> 3]

\* struct Event { ast, module, contract }: event 1 belongs to the contract,
\* event 2 is declared at module level.
EventData(e) ==
    IF e = 1 THEN [name |-> "E", module |-> 1, contract |-> 1]
    ELSE [name |-> "Ev", module |-> 2, contract |-> NoId]

\* enum Class { Contract(ContractId), Struct(StructId) }, or no class.
NoClass == [kind |-> "None", id |-> NoId]

ClassContract(c) == [kind |-> "Contract", id |-> c]

ClassStruct(s) == [kind |-> "Struct", id |-> s]

\* Class::as_item
ClassAsItem(class) ==
    IF class.kind = "Contract" THEN ItemContract(class.id) ELSE ItemStruct(class.id)

(***************************************************************************)
(* The prelude: `bool` and `address`, then one entry for each of the       *)
(* enumerations std_prelude_items iterates over (integers, generic types,  *)
(* global functions, intrinsics, global objects).                          *)
(***************************************************************************)
PrimitiveName(p) == IF p = 1 THEN "bool" ELSE IF p = 2 THEN "address" ELSE "u256"

std_prelude_items ==
    Chain(Chain(Chain(Chain(Chain(
        Chain(Entry("bool", ItemPrimitive(1)), Entry("address", ItemPrimitive(2))),
        Entry("u256", ItemPrimitive(3))),
        Entry("Array", ItemGenericType(1))),
        Entry("keccak256", ItemBuiltinFunction(1))),
        Entry("__add", ItemIntrinsic(1))),
        Entry("block", ItemObject(1)))

(***************************************************************************)
(* Item::name                                                              *)
(***************************************************************************)
Item_name(item) ==
    CASE item.kind = "Contract" -> ContractData(item.id).name
      [] item.kind = "Struct" -> StructData(item.id).name
      [] item.kind = "Alias" -> TypeAliasData(item.id).name
      [] item.kind = "Primitive" -> PrimitiveName(item.id)
      [] item.kind = "GenericType" -> "Array"
      [] item.kind = "Event" -> EventData(item.id).name
      [] item.kind = "Function" -> functions[item.id].name
      [] item.kind = "BuiltinFunction" -> "keccak256"
      [] item.kind = "Intrinsic" -> "__add"
      [] item.kind = "Object" -> "block"
      [] item.kind = "Constant" -> ModuleConstantData(item.id).name
      [] item.kind = "Ingot" -> ingots[item.id].name
      [] item.kind = "Module" -> modules[item.id].name

(***************************************************************************)
(* Query results that do not vary.                                         *)
(***************************************************************************)
\* IngotId::external_ingots: name -> IngotId
Ingot_external_ingots(ingot) ==
    IF ingot = StdIngot THEN [n \in {} |-> NoId] ELSE [n \in {"std"} |-> StdIngot]

\* IngotId::all_modules
Ingot_all_modules(ingot) ==
    IF ingot = AppIngot THEN <<1, 2, 3>> ELSE IF ingot = StdIngot THEN <<4>> ELSE <<5>>

\* ModuleId::is_incomplete: the parser stopped at a syntax error.
Module_is_incomplete(m) == modules[m].incomplete

\* ModuleId::submodules: the modules whose parent module is m, in ID order.
RECURSIVE SubmodulesFrom(_, _)
SubmodulesFrom(m, k) ==
    IF k > Cardinality(ModuleIds) THEN <<>>
    ELSE (IF module_parent_module[k] = m THEN <<k>> ELSE <<>>) \o SubmodulesFrom(m, k + 1)

Module_submodules(m) == SubmodulesFrom(m, 1)

\* ModuleId::all_items: the items declared at the top level of the module,
\* in source order, duplicates included.  A directory module has no
\* statements.
Module_all_items(m) ==
    CASE modules[m].source = "Dir" -> <<>>
      [] m = 1 -> <<ItemContract(1)>>
                  \o (IF functions[1].parent = NoClass THEN <<ItemFunction(1)>> ELSE <<>>)
      [] m = 2 -> <<ItemStruct(1), ItemEvent(2)>>
      [] m = 3 -> <<ItemAlias(1), ItemConstant(1)>>
      [] OTHER -> <<>>

\* ModuleId::used_items (name -> item; the span is not modelled): module 2
\* has `use ingot::<module 1> as up`.
Module_used_items(m) == IF m = 2 THEN Entry("up", ItemModule(1)) ELSE EmptyMap

\* A sequence of (name, item) entries collected into a map, where the first
\* entry of a name stays (a later declaration of the name is a duplicate).
RECURSIVE FirstWins(_, _)
FirstWins(items, k) ==
    IF k > Len(items) THEN EmptyMap
    ELSE Chain(FirstWins(items, k + 1), Entry(Item_name(items[k]), items[k]))

RECURSIVE ModuleEntries(_, _)
ModuleEntries(ms, k) ==
    IF k > Len(ms) THEN EmptyMap
    ELSE Chain(Entry(modules[ms[k]].name, ItemModule(ms[k])), ModuleEntries(ms, k + 1))

\* The value of the module_item_map query: "a map of the named items in the
\* module", which are its declared items, its submodules and its used items.
module_item_map(m) ==
    Chain(Chain(FirstWins(Module_all_items(m), 1), ModuleEntries(Module_submodules(m), 1)), Module_used_items(m))

(***************************************************************************)
(* Module scopes                                                           *)
(***************************************************************************)
\* ModuleId::items
Module_items(m) == module_item_map(m)

\* ModuleId::global_items with the prelude entries chained before those of
\* the external ingots.
GlobalItemsOf_PreludeFirst(ingot, deps) ==
    LET items == Chain(std_prelude_items, [n \in DOMAIN deps |-> ItemIngot(deps[n])])
    IN  IF ingots[ingot].mode # "StandaloneModule"
        THEN Chain(items, Entry("ingot", ItemIngot(ingot)))
        ELSE items

\* The body of ModuleId::global_items for a module of `ingot`, where deps is
\* the value of ingot.external_ingots(db).
GlobalItemsOf(ingot, deps) ==
    LET items == Chain([n \in DOMAIN deps |-> ItemIngot(deps[n])], std_prelude_items)
    IN  IF ingots[ingot].mode # "StandaloneModule"
        THEN Chain(items, Entry("ingot", ItemIngot(ingot)))
        ELSE items

\* ModuleId::global_items
Module_global_items(m) ==
    GlobalItemsOf(modules[m].ingot, Ingot_external_ingots(modules[m].ingot))

\* ModuleId::non_used_internal_items
Module_non_used_internal_items(m) ==
    Chain(ModuleEntries(Module_submodules(m), 1), Module_global_items(m))

\* ModuleId::internal_items without the global items.
Module_internal_items_NoGlobals(m) ==
    Chain(ModuleEntries(Module_submodules(m), 1), Module_items(m))

\* ModuleId::internal_items with the global items chained last.
Module_internal_items_GlobalsLast(m) ==
    Chain(Chain(ModuleEntries(Module_submodules(m), 1), Module_items(m)),
          Module_global_items(m))

\* ModuleId::internal_items
Module_internal_items(m) ==
    Chain(Chain(ModuleEntries(Module_submodules(m), 1), Module_global_items(m)),
          Module_items(m))

(***************************************************************************)
(* Item::items.  The result says whether the call returned or aborted, the *)
(* map it returned and the modules whose module_item_map query it read.    *)
(***************************************************************************)
Returned(map, reads) == [status |-> "return", map |-> map, reads |-> reads, panic |-> ""]

Aborted(msg) == [status |-> "panic", map |-> EmptyMap, reads |-> {}, panic |-> msg]

\* IngotId::items
Ingot_items(ingot) ==
    IF ingot_root_module[ingot] = NoId
    THEN Aborted("missing root module")
    ELSE Returned(Module_items(ingot_root_module[ingot]), {ingot_root_module[ingot]})

\* Item::items giving the internal items of a module.
Item_items_Internal(item) ==
    CASE item.kind = "Ingot" -> Ingot_items(item.id)
      [] item.kind = "Module" -> Returned(Module_internal_items(item.id), {item.id})
      [] IsType(item) -> Aborted("not yet implemented: cannot access items in types yet")
      [] OTHER -> Returned(EmptyMap, {})

Item_items(item) ==
    CASE item.kind = "Ingot" -> Ingot_items(item.id)
      [] item.kind = "Module" -> Returned(Module_items(item.id), {item.id})
      [] IsType(item) -> Aborted("not yet implemented: cannot access items in types yet")
      [] OTHER -> Returned(EmptyMap, {})

(***************************************************************************)
(* Item::parent and the parent methods it dispatches to                    *)
(***************************************************************************)
\* ModuleId::parent
Module_parent(m) ==
    IF module_parent_module[m] # NoId
    THEN ItemModule(module_parent_module[m])
    ELSE ItemIngot(modules[m].ingot)

\* FunctionId::parent
Function_parent(f) ==
    IF functions[f].parent # NoClass
    THEN ClassAsItem(functions[f].parent)
    ELSE ItemModule(functions[f].module)

\* EventId::parent
Event_parent(e) ==
    IF EventData(e).contract # NoId
    THEN ItemContract(EventData(e).contract)
    ELSE ItemModule(EventData(e).module)

\* TypeDef::parent
TypeDef_parent(item) ==
    CASE item.kind = "Alias" -> ItemModule(TypeAliasData(item.id).module)
      [] item.kind = "Struct" -> ItemModule(StructData(item.id).module)
      [] item.kind = "Contract" -> ItemModule(ContractData(item.id).module)
      [] item.kind = "Primitive" -> NoItem

Item_parent(item) ==
    CASE IsType(item) -> TypeDef_parent(item)
      [] item.kind = "GenericType" -> NoItem
      [] item.kind = "Event" -> Event_parent(item.id)
      [] item.kind = "Function" -> Function_parent(item.id)
      [] item.kind = "Constant" -> ItemModule(ModuleConstantData(item.id).module)
      [] item.kind = "Module" -> Module_parent(item.id)
      [] OTHER -> NoItem

(***************************************************************************)
(* Item::path                                                              *)
(***************************************************************************)
RECURSIVE Item_path(_)
\* Item::path with the name put before the parent's path.
Item_path_NameFirst(item) ==
    LET parent == Item_parent(item)
    IN  IF parent = NoItem \/ parent.kind = "Ingot"
        THEN <<Item_name(item)>>
        ELSE <<Item_name(item)>> \o Item_path(parent)

Item_path(item) ==
    LET parent == Item_parent(item)
    IN  IF parent = NoItem \/ parent.kind = "Ingot"
        THEN <<Item_name(item)>>
        ELSE Append(Item_path(parent), Item_name(item))

(***************************************************************************)
(* Path resolution.  A segment is a Node<SmolStr>: a name and its span.    *)
(* An Analysis<Option<Item>> is a value and a list of diagnostics; the     *)
(* result also says whether the call aborted, which module_item_map        *)
(* queries it read, and how many segments it looked up.                    *)
(***************************************************************************)
\* errors::error(message, span, label)
Error(message, span, label) == [message |-> message, span |-> span, label |-> label]

Analysis(value, diagnostics, reads, examined) ==
    [diagnostics |-> diagnostics, examined |-> examined, panic |-> "",
     reads |-> reads, status |-> "return", value |-> value]

Panicked(msg, reads, examined) ==
    [diagnostics |-> <<>>, examined |-> examined, panic |-> msg,
     reads |-> reads, status |-> "panic", value |-> NoItem]

\* The loop of Item::resolve_path_segments from segment k on.
RECURSIVE ResolveLoop(_, _, _, _)
ResolveLoop(curr_item, segments, k, reads) ==
    IF k > Len(segments)
    THEN Analysis(curr_item, <<>>, reads, k - 1)
    ELSE LET node == segments[k]
             scope == Item_items(curr_item)
         IN  IF scope.status = "panic"
             THEN Panicked(scope.panic, reads, k)
             ELSE IF node.kind \in DOMAIN scope.map
                  THEN ResolveLoop(scope.map[node.kind], segments, k + 1,
                                   reads \cup scope.reads)
                  ELSE Analysis(NoItem,
                                <<Error("unresolved path item", node.span, "not found")>>,
                                reads \cup scope.reads, k)

\* Item::resolve_path_segments returning the starting item without a lookup.
Item_resolve_path_segments_NoLookup(item, segments) == Analysis(item, <<>>, {}, 0)

\* Item::resolve_path_segments reading the scope of the starting item before
\* the loop over the segments.
Item_resolve_path_segments_ScopeFirst(item, segments) ==
    LET scope == Item_items(item)
    IN  IF scope.status = "panic"
        THEN Panicked(scope.panic, {}, 0)
        ELSE ResolveLoop(item, segments, 1, scope.reads)

\* Item::resolve_path_segments
Item_resolve_path_segments(item, segments) == ResolveLoop(item, segments, 1, {})

\* &segments[1..]
Tail1(segments) == SubSeq(segments, 2, Len(segments))

\* ModuleId::resolve_path
Module_resolve_path(m, segments) == Item_resolve_path_segments(ItemModule(m), segments)

\* ModuleId::resolve_path_non_used_internal
Module_resolve_path_non_used_internal(m, segments) ==
    IF Len(segments) = 0
    THEN Panicked("index out of bounds", {}, 0)
    ELSE LET first_segment == segments[1]
             scope == Module_non_used_internal_items(m)
         IN  IF first_segment.kind \in DOMAIN scope
             THEN Item_resolve_path_segments(scope[first_segment.kind], Tail1(segments))
             ELSE Analysis(NoItem,
                           <<Error("unresolved path item", first_segment.span, "not found")>>,
                           {}, 0)

\* ModuleId::resolve_path_internal
Module_resolve_path_internal(m, segments) ==
    IF Len(segments) = 0
    THEN Panicked("index out of bounds", {}, 0)
    ELSE LET first_segment == segments[1]
             scope == Module_internal_items(m)
         IN  IF first_segment.kind \in DOMAIN scope
             THEN LET r == Item_resolve_path_segments(scope[first_segment.kind],
                                                      Tail1(segments))
                  IN  [r EXCEPT !.reads = @ \cup {m}]
             ELSE Analysis(NoItem,
                           <<Error("unresolved path item", first_segment.span, "not found")>>,
                           {m}, 0)

\* ModuleId::resolve_name asking is_incomplete before looking the name up.
Module_resolve_name_IncompleteFirst(m, name) ==
    IF Module_is_incomplete(m)
    THEN [result |-> "Err", value |-> NoItem]
    ELSE IF name \in DOMAIN Module_internal_items(m)
         THEN [result |-> "Ok", value |-> Module_internal_items(m)[name]]
         ELSE [result |-> "Ok", value |-> NoItem]

\* ModuleId::resolve_name: Ok(Some(item)), Err(IncompleteItem) or Ok(None)
Module_resolve_name(m, name) ==
    IF name \in DOMAIN Module_internal_items(m)
    THEN [result |-> "Ok", value |-> Module_internal_items(m)[name]]
    ELSE IF Module_is_incomplete(m)
         THEN [result |-> "Err", value |-> NoItem]
         ELSE [result |-> "Ok", value |-> NoItem]

(***************************************************************************)
(* Names inside a contract                                                 *)
(***************************************************************************)
\* FunctionId::takes_self
Function_takes_self(f) == functions[f].self_decl

\* ContractId::functions: the functions declared in the contract, by name.
Contract_functions(c) ==
    LET members == {f \in FunctionIds : functions[f].parent = ClassContract(c)}
    IN  [n \in {functions[f].name : f \in members} |->
            CHOOSE f \in members : functions[f].name = n]

\* ContractId::function, or NoId
Contract_function(c, name) ==
    IF name \in DOMAIN Contract_functions(c) THEN Contract_functions(c)[name] ELSE NoId

\* ContractId::self_function, or NoId
Contract_self_function(c, name) ==
    LET f == Contract_function(c, name)
    IN  IF f # NoId /\ Function_takes_self(f) THEN f ELSE NoId

\* ContractId::events: the events declared in the contract, by name.
Contract_events(c) ==
    LET members == {e \in EventIds : EventData(e).contract = c}
    IN  [n \in {EventData(e).name : e \in members} |->
            CHOOSE e \in members : EventData(e).name = n]

\* ContractId::event, or NoId
Contract_event(c, name) ==
    IF name \in DOMAIN Contract_events(c) THEN Contract_events(c)[name] ELSE NoId

\* ContractId::resolve_name without the filter on takes_self.
Contract_resolve_name_AnyFunction(c, name) ==
    LET f == Contract_function(c, name)
        e == Contract_event(c, name)
    IN  IF f # NoId THEN [result |-> "Ok", value |-> ItemFunction(f)]
        ELSE IF e # NoId THEN [result |-> "Ok", value |-> ItemEvent(e)]
        ELSE Module_resolve_name(ContractData(c).module, name)

\* ContractId::resolve_name
Contract_resolve_name(c, name) ==
    LET f == Contract_function(c, name)
        e == Contract_event(c, name)
    IN  IF f # NoId /\ ~Function_takes_self(f)
        THEN [result |-> "Ok", value |-> ItemFunction(f)]
        ELSE IF e # NoId THEN [result |-> "Ok", value |-> ItemEvent(e)]
        ELSE Module_resolve_name(ContractData(c).module, name)

(***************************************************************************)
(* Diagnostics.  The sink is a Vec<Diagnostic>; push appends one           *)
(* diagnostic and push_all appends those of an iterator in order.          *)
(***************************************************************************)
Diagnostic(message) == [message |-> message, span |-> 0, label |-> ""]

\* DiagnosticSink::push that skips a diagnostic the sink holds.
Push_Unique(sink, diag) ==
    IF \E k \in 1..Len(sink) : sink[k] = diag THEN sink ELSE Append(sink, diag)

\* DiagnosticSink::push for Vec<Diagnostic>
Push(sink, diag) == Append(sink, diag)

\* DiagnosticSink::push_all for Vec<Diagnostic>
PushAll(sink, diags) == sink \o diags

\* module_parse(m).diagnostics: what the query holds for a module whose text
\* has a syntax error.
ModuleParseDiagnostics(m) ==
    IF modules[m].incomplete THEN <<Diagnostic("failed to parse")>> ELSE <<>>

\* The check_pragma_version errors of the module's pragma statements.
PragmaDiagnostics(m) ==
    IF m = 3 /\ modules[m].source # "Dir" THEN <<Diagnostic("pragma version mismatch")>> ELSE <<>>

\* module_item_map(m).diagnostics: one error for each declaration whose
\* name an earlier declaration of the module has.
RECURSIVE DuplicateDiagnostics(_, _)
DuplicateDiagnostics(items, k) ==
    IF k > Len(items) THEN <<>>
    ELSE (IF \E j \in 1..(k - 1) : Item_name(items[j]) = Item_name(items[k])
          THEN <<Diagnostic("duplicate name")>> ELSE <<>>)
         \o DuplicateDiagnostics(items, k + 1)

ModuleItemMapDiagnostics(m) == DuplicateDiagnostics(Module_all_items(m), 1)

\* Item::sink_diagnostics for the items a module declares: what the queries
\* of the item report.  The contract has a field of an unknown type.
ItemDiagnostics(item) ==
    IF item = ItemContract(1) THEN <<Diagnostic("undefined type")>> ELSE <<>>

RECURSIVE SinkItems(_, _, _)
SinkItems(items, k, sink) ==
    IF k > Len(items) THEN sink
    ELSE SinkItems(items, k + 1, PushAll(sink, ItemDiagnostics(items[k])))

\* ModuleId::sink_diagnostics pushing the parse diagnostics whatever the
\* source of the module.
Module_sink_diagnostics_AlwaysParse(m, sink) ==
    LET s1 == PushAll(sink, ModuleParseDiagnostics(m))
        s2 == PushAll(s1, PragmaDiagnostics(m))
        s3 == PushAll(s2, ModuleItemMapDiagnostics(m))
    IN  SinkItems(Module_all_items(m), 1, s3)

\* ModuleId::sink_diagnostics
Module_sink_diagnostics(m, sink) ==
    LET s1 == IF modules[m].source = "File"
              THEN PushAll(sink, ModuleParseDiagnostics(m)) ELSE sink
        s2 == PushAll(s1, PragmaDiagnostics(m))
        s3 == PushAll(s2, ModuleItemMapDiagnostics(m))
    IN  SinkItems(Module_all_items(m), 1, s3)

RECURSIVE SinkModules(_, _, _)
SinkModules(ms, k, sink) ==
    IF k > Len(ms) THEN sink
    ELSE SinkModules(ms, k + 1, Module_sink_diagnostics(ms[k], sink))

MissingRootDiagnostic(ingot, file_name) ==
    [message |-> "The ingot is missing a root module", span |-> 0,
     label |-> file_name, ingot |-> ingots[ingot].name]

\* IngotId::sink_diagnostics
Ingot_sink_diagnostics(ingot, sink) ==
    IF ingot_root_module[ingot] = NoId /\ ingots[ingot].mode = "StandaloneModule"
    THEN [status |-> "panic", sink |-> sink]
    ELSE LET file_name == IF ingots[ingot].mode = "Lib" THEN "lib" ELSE "main"
             s1 == IF ingot_root_module[ingot] = NoId
                   THEN Push(sink, MissingRootDiagnostic(ingot, file_name))
                   ELSE sink
         IN  [status |-> "return", sink |-> SinkModules(Ingot_all_modules(ingot), 1, s1)]

\* IngotId::diagnostics
Ingot_diagnostics(ingot) == Ingot_sink_diagnostics(ingot, <<>>)

(***************************************************************************)
(* Paths.  A Utf8Path is its sequence of components.  A source file path   *)
(* is given by its directories, the base of the file name and the number   *)
(* of ".fe" suffixes after the base ("a.fe" has one, "a.fe.fe" two).       *)
(***************************************************************************)
SourcePath(dirs, base, fes) == [dirs |-> dirs, base |-> base, fes |-> fes]

RECURSIVE FeSuffixes(_)
FeSuffixes(k) == IF k = 0 THEN "" ELSE ".fe" \o FeSuffixes(k - 1)

FileName(path) == path.base \o FeSuffixes(path.fes)

\* Utf8Path::components
Components(path) == Append(path.dirs, FileName(path))

\* Utf8Path::file_stem: the file name without its last extension.
file_stem(path) ==
    IF path.fes = 0 THEN path.base ELSE path.base \o FeSuffixes(path.fes - 1)

\* Utf8Path::parent of a file path
parent_dir(path) == path.dirs

IsPrefix(pre, comps) ==
    Len(pre) <= Len(comps) /\ SubSeq(comps, 1, Len(pre)) = pre

\* fe_common::files::common_prefix: the longest common prefix of the
\* components of two paths.
RECURSIVE CommonFrom(_, _, _)
CommonFrom(left, right, k) ==
    IF k > Len(left) \/ k > Len(right) \/ left[k] # right[k] THEN <<>>
    ELSE <<left[k]>> \o CommonFrom(left, right, k + 1)

common_prefix(left, right) == CommonFrom(left, right, 1)

\* files.iter().map(path).reduce(common_prefix) from file k on.
RECURSIVE ReducePrefix(_, _, _)
ReducePrefix(files, k, pref) ==
    IF k > Len(files) THEN pref
    ELSE ReducePrefix(files, k + 1, common_prefix(pref, Components(files[k])))

\* strip_prefix(&file_path_prefix).unwrap_or_else(|_| path)
strip_prefix(comps, prefix) ==
    IF IsPrefix(prefix, comps) THEN SubSeq(comps, Len(prefix) + 1, Len(comps))
    ELSE comps

\* ancestors().skip(1): the proper prefixes of a path, longest first, down
\* to the empty path.
RECURSIVE Ancestors(_, _)
Ancestors(comps, k) ==
    IF k < 0 THEN <<>> ELSE <<SubSeq(comps, 1, k)>> \o Ancestors(comps, k - 1)

ancestors_skip1(comps) == Ancestors(comps, Len(comps) - 1)

\* The stripped path of a file with every trailing ".fe" trimmed
\* (as_str().trim_end_matches(".fe")).
trim_end_matches_fe(path, prefix) ==
    LET stripped == strip_prefix(Components(path), prefix)
    IN  IF stripped = <<>> THEN <<>>
        ELSE Append(SubSeq(stripped, 1, Len(stripped) - 1), path.base)

\* Collecting into an IndexSet: the first occurrence of each element stays.
RECURSIVE IndexSetFrom(_, _, _)
IndexSetFrom(seq, k, acc) ==
    IF k > Len(seq) THEN acc
    ELSE IndexSetFrom(seq, k + 1,
            IF \E j \in 1..Len(acc) : acc[j] = seq[k] THEN acc ELSE Append(acc, seq[k]))

RECURSIVE FlatMapAncestors(_, _, _)
FlatMapAncestors(files, k, prefix) ==
    IF k > Len(files) THEN <<>>
    ELSE ancestors_skip1(strip_prefix(Components(files[k]), prefix))
            \o FlatMapAncestors(files, k + 1, prefix)

\* IndexSet::difference, then filter_map on file_name(): the directories
\* that get a Dir module, in order.
RECURSIVE DirsWithoutFile(_, _, _, _)
DirsWithoutFile(dirs, k, files, prefix) ==
    IF k > Len(dirs) THEN <<>>
    ELSE (IF dirs[k] # <<>>
             /\ ~\E j \in 1..Len(files) : trim_end_matches_fe(files[j], prefix) = dirs[k]
          THEN <<dirs[k]>> ELSE <<>>)
         \o DirsWithoutFile(dirs, k + 1, files, prefix)

(***************************************************************************)
(* The interner and the inputs the builder sets.  An ID is the position of *)
(* its record in the table; interning a record that the table holds gives  *)
(* the ID it has.                                                          *)
(***************************************************************************)
\* calls counts the builder calls made on the database.
EmptyDb ==
    [ingots |-> <<>>, modules |-> <<>>,
     ingot_modules |-> [i \in {} |-> <<>>],
     ingot_external_ingots |-> [i \in {} |-> EmptyMap],
     calls |-> 0]

LookupId(table, record) ==
    IF \E id \in 1..Len(table) : table[id] = record
    THEN CHOOSE id \in 1..Len(table) : table[id] = record
    ELSE NoId

\* An interner that gives every record a new ID.
Intern_AlwaysFresh(table, record) ==
    [table |-> Append(table, record), id |-> Len(table) + 1]

\* db.intern_ingot / db.intern_module
Intern(table, record) ==
    IF LookupId(table, record) # NoId
    THEN [table |-> table, id |-> LookupId(table, record)]
    ELSE [table |-> Append(table, record), id |-> Len(table) + 1]

\* db.set_ingot_modules / db.set_ingot_external_ingots
SetInput(f, ingot, value) ==
    [i \in DOMAIN f \cup {ingot} |-> IF i = ingot THEN value ELSE f[i]]

\* ModuleSource::File(SourceFileId) and ModuleSource::Dir(path).  A source
\* file is identified by its kind and its path.
SourceFile(kind, path) == [tag |-> "File", kind |-> kind, path |-> Components(path)]

SourceDir(dir) == [tag |-> "Dir", kind |-> "", path |-> dir]

\* ModuleId::new that makes a new ID for every call.
ModuleId_new_AlwaysFresh(d, name, source, ingot) ==
    LET r == Intern_AlwaysFresh(d.modules,
                                [name |-> name, ingot |-> ingot, source |-> source])
    IN  [db |-> [d EXCEPT !.modules = r.table], id |-> r.id]

\* ModuleId::new
ModuleId_new(d, name, source, ingot) ==
    LET r == Intern(d.modules, [name |-> name, ingot |-> ingot, source |-> source])
    IN  [db |-> [d EXCEPT !.modules = r.table], id |-> r.id]

\* ModuleId::data
ModuleId_data(d, id) == d.modules[id]

(***************************************************************************)
(* IngotId::from_files                                                     *)
(***************************************************************************)
\* file_path_prefix computed as the common prefix also for one file.
file_path_prefix_ReduceOnly(files) == ReducePrefix(files, 2, Components(files[1]))

\* file_path_prefix
file_path_prefix(files) ==
    IF Len(files) = 1 THEN parent_dir(files[1])
    ELSE ReducePrefix(files, 2, Components(files[1]))

\* files.iter().map(.. ModuleId::new(stem, File(file), ingot)).collect()
RECURSIVE FileMods(_, _, _, _, _)
FileMods(d, files, k, file_kind, ingot) ==
    IF k > Len(files) THEN [db |-> d, ids |-> <<>>]
    ELSE LET m == ModuleId_new(d, file_stem(files[k]),
                               SourceFile(file_kind, files[k]), ingot)
             rest == FileMods(m.db, files, k + 1, file_kind, ingot)
         IN  [db |-> rest.db, ids |-> <<m.id>> \o rest.ids]

\* dirs.difference(..).filter_map(.. ModuleId::new(name, Dir(dir), ingot))
RECURSIVE DirMods(_, _, _, _)
DirMods(d, dirs, k, ingot) ==
    IF k > Len(dirs) THEN [db |-> d, ids |-> <<>>]
    ELSE LET m == ModuleId_new(d, dirs[k][Len(dirs[k])], SourceDir(dirs[k]), ingot)
             rest == DirMods(m.db, dirs, k + 1, ingot)
         IN  [db |-> rest.db, ids |-> <<m.id>> \o rest.ids]

\* The message of the expect on the reduced prefix (its backquotes left out).
EmptyFileList == "IngotId::from_files: empty file list"

\* What from_files does with a list of one file or more.
BuildIngot(d, name, mode, file_kind, files, deps) ==
    LET prefix == file_path_prefix(files)
        i == Intern(d.ingots, [name |-> name, mode |-> mode,
                               original |-> NoId, src_dir |-> prefix])
        fm == FileMods([d EXCEPT !.ingots = i.table], files, 1, file_kind, i.id)
        dirs == IndexSetFrom(FlatMapAncestors(files, 1, prefix), 1, <<>>)
        dm == DirMods(fm.db, DirsWithoutFile(dirs, 1, files, prefix), 1, i.id)
    IN  [status |-> "return", ingot |-> i.id, panic |-> "",
         db |-> [dm.db EXCEPT
                   !.ingot_modules = SetInput(@, i.id, fm.ids \o dm.ids),
                   !.ingot_external_ingots = SetInput(@, i.id, deps)]]

\* IngotId::from_files interning the ingot, with the empty path as src_dir,
\* before it finds the file list empty.
Ingot_from_files_InternFirst(d, name, mode, file_kind, files, deps) ==
    IF Len(files) = 0
    THEN LET i == Intern(d.ingots, [name |-> name, mode |-> mode,
                                    original |-> NoId, src_dir |-> <<>>])
         IN  [status |-> "panic", db |-> [d EXCEPT !.ingots = i.table],
              ingot |-> NoId, panic |-> EmptyFileList]
    ELSE BuildIngot(d, name, mode, file_kind, files, deps)

\* IngotId::from_files
Ingot_from_files(d, name, mode, file_kind, files, deps) ==
    IF Len(files) = 0
    THEN [status |-> "panic", db |-> d, ingot |-> NoId, panic |-> EmptyFileList]
    ELSE BuildIngot(d, name, mode, file_kind, files, deps)

\* The ingot_root_module query: the one module of a StandaloneModule ingot,
\* the module of main.fe or lib.fe in src_dir for a Main or Lib ingot.
Db_root_module(d, ingot) ==
    LET mods == d.ingot_modules[ingot]
        data == d.ingots[ingot]
        file == Append(data.src_dir, IF data.mode = "Lib" THEN "lib.fe" ELSE "main.fe")
        IsRoot(m) == d.modules[m].source.tag = "File" /\ d.modules[m].source.path = file
    IN  IF data.mode = "StandaloneModule"
        THEN (IF Len(mods) = 0 THEN NoId ELSE mods[1])
        ELSE IF \E k \in 1..Len(mods) : IsRoot(mods[k])
             THEN mods[CHOOSE k \in 1..Len(mods) :
                        IsRoot(mods[k]) /\ \A j \in 1..(k - 1) : ~IsRoot(mods[j])]
             ELSE NoId

\* fe_library::std_src_files()
StdSrcFiles == <<SourcePath(<<"std">>, "lib", 1), SourcePath(<<"std">>, "evm", 1)>>

\* IngotId::std_lib
Ingot_std_lib(d) == Ingot_from_files(d, "std", "Lib", "Std", StdSrcFiles, EmptyMap)

\* ModuleId::new_standalone that gives the ingot no external ingots.
ModuleId_new_standalone_NoDeps(d, path) ==
    LET std == Ingot_std_lib(d)
        r == Ingot_from_files(std.db, "", "StandaloneModule", "Local", <<path>>,
                              [n \in {} |-> NoId])
    IN  IF Db_root_module(r.db, r.ingot) = NoId
        THEN [status |-> "panic", db |-> r.db, id |-> NoId]
        ELSE [status |-> "return", db |-> r.db, id |-> Db_root_module(r.db, r.ingot)]

\* ModuleId::new_standalone
ModuleId_new_standalone(d, path) ==
    LET std == Ingot_std_lib(d)
        r == Ingot_from_files(std.db, "", "StandaloneModule", "Local", <<path>>,
                              [n \in {"std"} |-> std.ingot])
    IN  IF Db_root_module(r.db, r.ingot) = NoId
        THEN [status |-> "panic", db |-> r.db, id |-> NoId]
        ELSE [status |-> "return", db |-> r.db, id |-> Db_root_module(r.db, r.ingot)]

(***************************************************************************)
(* Dependency graphs.  A DepGraph is a DiGraphMap<Item, DepLocality>: it   *)
(* keeps its nodes and its edges in the order they were added, and one     *)
(* edge for each ordered pair of nodes.                                    *)
(***************************************************************************)
EmptyGraph == [nodes |-> <<>>, edges |-> <<>>]

HasNode(g, n) == \E k \in 1..Len(g.nodes) : g.nodes[k] = n

\* DiGraphMap::add_node
add_node(g, n) == IF HasNode(g, n) THEN g ELSE [g EXCEPT !.nodes = Append(@, n)]

\* DiGraphMap::add_edge: a new weight for an edge the graph has replaces
\* the old one in place.
add_edge(g, a, b, weight) ==
    LET g1 == add_node(add_node(g, a), b)
        edge == [from |-> a, to |-> b, weight |-> weight]
    IN  IF \E k \in 1..Len(g1.edges) : g1.edges[k].from = a /\ g1.edges[k].to = b
        THEN [g1 EXCEPT !.edges = [k \in 1..Len(g1.edges) |->
                    IF g1.edges[k].from = a /\ g1.edges[k].to = b
                    THEN edge ELSE g1.edges[k]]]
        ELSE [g1 EXCEPT !.edges = Append(@, edge)]

\* DiGraphMap::all_edges and DiGraphMap::nodes, as the sequences the
\* iterators yield.
all_edges(g) == g.edges

nodes_of(g) == g.nodes

\* DepGraphWrapper::eq comparing the node sets and the edge sets.
DepGraphWrapper_eq_Sets(g1, g2) ==
    /\ {all_edges(g1)[k] : k \in 1..Len(all_edges(g1))}
            = {all_edges(g2)[k] : k \in 1..Len(all_edges(g2))}
    /\ {nodes_of(g1)[k] : k \in 1..Len(nodes_of(g1))}
            = {nodes_of(g2)[k] : k \in 1..Len(nodes_of(g2))}

\* DepGraphWrapper::eq: Iterator::eq on all_edges() and on nodes()
DepGraphWrapper_eq(g1, g2) ==
    all_edges(g1) = all_edges(g2) /\ nodes_of(g1) = nodes_of(g2)

\* graph.neighbors(node) of the graph handed to bfs.next: the targets of
\* the edges that leave the node, whatever their label.
neighbors(g, node) ==
    LET out == SelectSeq(g.edges, LAMBDA e : e.from = node)
    IN  [k \in 1..Len(out) |-> out[k].to]

\* The loop over graph.neighbors(node) queueing every successor, discovered
\* or not.
RECURSIVE VisitNeighbors_Unmarked(_, _, _, _)
VisitNeighbors_Unmarked(succs, k, queue, discovered) ==
    IF k > Len(succs) THEN [queue |-> queue, discovered |-> discovered]
    ELSE VisitNeighbors_Unmarked(succs, k + 1, Append(queue, succs[k]), discovered)

\* for succ in graph.neighbors(node) { if discovered.visit(succ) { push_back } }
RECURSIVE VisitNeighbors(_, _, _, _)
VisitNeighbors(succs, k, queue, discovered) ==
    IF k > Len(succs) THEN [queue |-> queue, discovered |-> discovered]
    ELSE IF succs[k] \in discovered
         THEN VisitNeighbors(succs, k + 1, queue, discovered)
         ELSE VisitNeighbors(succs, k + 1, Append(queue, succs[k]),
                             discovered \cup {succs[k]})

\* while let Some(node) = bfs.next(&graph) { fun(node) }: the nodes fun is
\* called on, in order.
RECURSIVE BfsLoop(_, _, _)
BfsLoop(g, queue, discovered) ==
    IF queue = <<>> THEN <<>>
    ELSE LET node == Head(queue)
             v == VisitNeighbors(neighbors(g, node), 1, Tail(queue), discovered)
         IN  <<node>> \o BfsLoop(g, v.queue, v.discovered)

\* walk_local_dependencies: Bfs::new(&EdgeFiltered(..), root) marks root
\* discovered and queues it; the loop then walks `graph`.
walk_local_dependencies(g, root) == BfsLoop(g, <<root>>, {root})

(***************************************************************************)
(* Inputs                                                                  *)
(***************************************************************************)
SegNames == {"ingot", "a", "b", "Foo", "up", "zz"}

Names == SegNames \cup {"bool", "std", "f", "K"}

\* Values of the ingot_external_ingots query: dependency names as the
\* ingot's configuration gives them.
DepChoices ==
    {[n \in {} |-> NoId],
     [n \in {"std"} |-> StdIngot],
     [n \in {"std", "bool"} |-> IF n = "std" THEN StdIngot ELSE SoloIngot],
     [n \in {"ingot"} |-> StdIngot],
     [n \in {"u256", "lib"} |-> StdIngot]}

\* File lists handed to the builder.
LibFe == SourcePath(<<"src">>, "lib", 1)

MainFe == SourcePath(<<"src">>, "main", 1)

FileLists ==
    {<<LibFe, SourcePath(<<"src", "a", "b">>, "x", 1),
       SourcePath(<<"src", "a", "c", "d">>, "y", 1)>>,
     <<MainFe>>,
     <<SourcePath(<<>>, "x", 1)>>,
     <<SourcePath(<<"src">>, "a", 1), SourcePath(<<"src", "a">>, "x", 1)>>,
     <<SourcePath(<<"src">>, "a", 2), SourcePath(<<"src", "a">>, "x", 1)>>,
     <<SourcePath(<<"src", "a">>, "x", 1), SourcePath(<<"src", "a">>, "y", 1)>>,
     <<SourcePath(<<"a">>, "x", 1), MainFe>>,
     <<MainFe, SourcePath(<<"src", "a">>, "x", 1), LibFe>>,
     <<>>}

\* The nodes of dependency graphs and the calls that build a graph.
GraphNodes == {ItemContract(1), ItemStruct(1), ItemFunction(1)}

Localities == {"Local", "External"}

EdgeOps == [op : {"add_edge"}, a : GraphNodes, b : GraphNodes, weight : Localities]

NodeOps == [op : {"add_node"}, a : {ItemContract(1), ItemFunction(1)}]

SmallEdgeOps ==
    [op : {"add_edge"}, a : {ItemContract(1), ItemFunction(1)},
     b : {ItemContract(1), ItemFunction(1)}, weight : Localities]

RECURSIVE BuildGraph(_, _, _)
BuildGraph(ops, k, g) ==
    IF k > Len(ops) THEN g
    ELSE BuildGraph(ops, k + 1,
            IF ops[k].op = "add_node" THEN add_node(g, ops[k].a)
            ELSE add_edge(g, ops[k].a, ops[k].b, ops[k].weight))

\* The add_edge calls that build a dependency graph, in call order.
WalkOps == UNION {[1..n -> EdgeOps] : n \in 0..MaxEdges}

WalkGraphs == {BuildGraph(ops, 1, EmptyGraph) : ops \in WalkOps}

\* The same calls made in the opposite order.
Reversed(ops) == [k \in 1..Len(ops) |-> ops[Len(ops) + 1 - k]]

\* The graphs walked step by step: edges between the contract and the
\* function, self-loops and cycles included; the struct is in none.
SteppedGraphs == {BuildGraph(ops, 1, EmptyGraph) :
                    ops \in UNION {[1..n -> SmallEdgeOps] : n \in 0..MaxEdges}}

ComparedGraphs == {BuildGraph(ops, 1, EmptyGraph) :
                    ops \in UNION {[1..n -> NodeOps \cup SmallEdgeOps] : n \in 0..MaxGraphOps}}

\* The diagnostics queries hand to a sink.
Diagnostics ==
    {Diagnostic("undefined type"), Diagnostic("duplicate name"),
     Diagnostic("failed to parse")}

DiagnosticLists == UNION {[1..n -> Diagnostics] : n \in 0..2}

\* Paths of standalone modules.
StandalonePaths == {MainFe, SourcePath(<<"src">>, "a", 1), SourcePath(<<>>, "x", 1)}

\* Records handed to ModuleId::new.
ModuleSources == {SourceDir(<<"a">>), SourceFile("Local", LibFe)}

\* The name and the mode an ingot is built with.
BuildArgs ==
    {[name |-> "app", mode |-> "Main"],
     [name |-> "app", mode |-> "Lib"],
     [name |-> "", mode |-> "StandaloneModule"]}

\* The segments of an ast::Path: each name with the span of its position.
Nodes(names) == [k \in 1..Len(names) |-> [kind |-> names[k], span |-> k]]

Paths == UNION {[1..n -> SegNames] : n \in 0..MaxPathLen}

(***************************************************************************)
(* Initial states: the databases considered.  Ingot 1 is a Main or Lib     *)
(* ingot of three file modules; module 1 is its root module                *)
(* when it has the name the mode asks for.  Module 3 is a submodule of     *)
(* module 2, and module 2 of module 1 or of no module.  Function 1 is      *)
(* declared in module 1, at the top level or in the contract.              *)
(***************************************************************************)
Function1Choices ==
    {[name |-> "f", module |-> 1, parent |-> NoClass, self_decl |-> FALSE],
     [name |-> "Foo", module |-> 1, parent |-> NoClass, self_decl |-> FALSE],
     [name |-> "f", module |-> 1, parent |-> ClassContract(1), self_decl |-> FALSE]}

\* Names of a source file (its module) and of a function: free names and
\* the names of a dependency, of a prelude entry, of `ingot` and of the
\* contract.
ScopeNames == {"a", "f", "std", "bool", "ingot", "Foo"}

\* Names of a function of the contract: a free name, the name of the
\* contract's event and names that the contract's module binds.
MemberNames == {"f", "E", "Foo", "std"}

\* The sources of the modules of the ingot under compilation.
AllFiles == [m \in 1..3 |-> "File"]

DatabaseOf(mode, has_root, parent2, f1, sources, name2, incomplete1) ==
    /\ ingots = [i \in IngotIds |->
            CASE i = AppIngot -> [name |-> "app", mode |-> mode]
              [] i = StdIngot -> [name |-> "std", mode |-> "Lib"]
              [] OTHER -> [name |-> "", mode |-> "StandaloneModule"]]
    /\ modules = [m \in ModuleIds |->
            CASE m = 1 -> [name |-> IF ~has_root THEN "other"
                                    ELSE IF mode = "Main" THEN "main" ELSE "lib",
                           ingot |-> AppIngot, source |-> sources[1],
                           incomplete |-> incomplete1]
              [] m = 2 -> [name |-> name2, ingot |-> AppIngot, source |-> sources[2],
                           incomplete |-> TRUE]
              [] m = 3 -> [name |-> "b", ingot |-> AppIngot, source |-> sources[3],
                           incomplete |-> FALSE]
              [] m = 4 -> [name |-> "lib", ingot |-> StdIngot, source |-> "File",
                           incomplete |-> FALSE]
              [] OTHER -> [name |-> "solo", ingot |-> SoloIngot, source |-> "File",
                           incomplete |-> FALSE]]
    /\ functions = [f \in FunctionIds |->
            IF f = 1 THEN f1
            ELSE [name |-> "g", module |-> 2, parent |-> ClassStruct(1),
                  self_decl |-> TRUE]]
    /\ ingot_root_module = [i \in IngotIds |->
            CASE i = AppIngot -> IF has_root THEN 1 ELSE NoId
              [] i = StdIngot -> 4
              [] OTHER -> 5]
    /\ module_parent_module = [m \in ModuleIds |->
            CASE m = 2 -> parent2
              [] m = 3 -> 2
              [] OTHER -> NoId]

Database(mode, has_root, parent2, f1) ==
    DatabaseOf(mode, has_root, parent2, f1, AllFiles, "a", FALSE)

\* An ingot of source files or its lowered copy; `a` is the module of the
\* file a.fe or of the directory a/ that holds b.fe.
ModuleSourceChoices ==
    {AllFiles,
     [m \in 1..3 |-> IF m = 2 THEN "Dir" ELSE "File"],
     [m \in 1..3 |-> "Lowered"],
     [m \in 1..3 |-> IF m = 2 THEN "Dir" ELSE "Lowered"]}

\* Nothing interned by the builder, an empty sink, no call.
Fresh ==
    /\ db = EmptyDb
    /\ sink_vec = <<>>
    /\ pushed = <<>>
    /\ call = [op |-> "none"]

Init ==
    \E mode \in {"Main", "Lib"}, has_root \in BOOLEAN, parent2 \in {NoId, 1},
       f1 \in Function1Choices :
        /\ has_root => parent2 = 1
        /\ Database(mode, has_root, parent2, f1)
        /\ Fresh

(***************************************************************************)
(* Actions: one per operation.  The database does not change.  A caller    *)
(* applies one operation at a time: the next one starts when the result of *)
(* the last has been taken (Return).                                       *)
(***************************************************************************)
NoCall == [op |-> "none"]

Idle == call = NoCall

Return ==
    /\ ~Idle
    /\ call' = NoCall
    /\ UNCHANGED world

ResolvePathSegments ==
    /\ Idle
    /\ \E start \in Items, p \in Paths :
            /\ call' = [op |-> "resolve_path_segments", start |-> start,
                        segments |-> Nodes(p),
                        result |-> Item_resolve_path_segments(start, Nodes(p))]
            /\ UNCHANGED world

ResolvePath ==
    /\ Idle
    /\ \E m \in ModuleIds, p \in Paths :
            /\ call' = [op |-> "resolve_path", module |-> m,
                        segments |-> Nodes(p),
                        result |-> Module_resolve_path(m, Nodes(p))]
            /\ UNCHANGED world

ResolvePathNonUsedInternal ==
    /\ Idle
    /\ \E m \in ModuleIds, p \in Paths :
            /\ call' = [op |-> "resolve_path_non_used_internal", module |-> m,
                        segments |-> Nodes(p),
                        result |-> Module_resolve_path_non_used_internal(m, Nodes(p))]
            /\ UNCHANGED world

ResolvePathInternal ==
    /\ Idle
    /\ \E m \in ModuleIds, p \in Paths :
            /\ call' = [op |-> "resolve_path_internal", module |-> m,
                        segments |-> Nodes(p),
                        result |-> Module_resolve_path_internal(m, Nodes(p))]
            /\ UNCHANGED world

ResolveName ==
    /\ Idle
    /\ \E m \in ModuleIds, name \in Names :
            /\ call' = [op |-> "resolve_name", module |-> m, name |-> name,
                        result |-> Module_resolve_name(m, name)]
            /\ UNCHANGED world

Scopes ==
    /\ Idle
    /\ \E m \in ModuleIds :
            /\ call' = [op |-> "scopes", module |-> m,
                        items |-> Module_items(m),
                        global_items |-> Module_global_items(m),
                        non_used_internal_items |-> Module_non_used_internal_items(m),
                        internal_items |-> Module_internal_items(m)]
            /\ UNCHANGED world

\* ModuleId::global_items in a database where the ingot of the module has
\* the external ingots deps.
GlobalItems ==
    /\ Idle
    /\ \E m \in ModuleIds, deps \in DepChoices :
            /\ call' = [op |-> "global_items", module |-> m, deps |-> deps,
                        result |-> GlobalItemsOf(modules[m].ingot, deps)]
            /\ UNCHANGED world

ContractResolveName ==
    /\ Idle
    /\ \E name \in Names \cup MemberNames :
            /\ call' = [op |-> "contract_resolve_name", contract |-> 1, name |-> name,
                        result |-> Contract_resolve_name(1, name)]
            /\ UNCHANGED world

ItemItems ==
    /\ Idle
    /\ \E item \in Items :
            /\ call' = [op |-> "items", item |-> item, result |-> Item_items(item)]
            /\ UNCHANGED world

Path ==
    /\ Idle
    /\ \E item \in Items :
            /\ call' = [op |-> "path", item |-> item, result |-> Item_path(item)]
            /\ UNCHANGED world

\* Item::resolve_path_segments applied to the parent of an item and the
\* one-segment path that names the item.
ResolveInParent ==
    /\ Idle
    /\ \E item \in Items :
            /\ Item_parent(item) # NoItem
            /\ call' = [item |-> item, op |-> "resolve_in_parent",
                        result |-> Item_resolve_path_segments(
                                       Item_parent(item), Nodes(<<Item_name(item)>>))]
            /\ UNCHANGED world

SinkDiagnostics ==
    /\ Idle
    /\ \E ingot \in IngotIds :
            /\ call' = [op |-> "diagnostics", ingot |-> ingot,
                        result |-> Ingot_diagnostics(ingot)]
            /\ UNCHANGED world

(***************************************************************************)
(* The ingot builder: its calls intern records and set inputs of db.       *)
(***************************************************************************)
MayBuild == db.calls < MaxCalls

Counted(d) == [d EXCEPT !.calls = @ + 1]

FromFiles ==
    /\ MayBuild
    /\ \E args \in BuildArgs, files \in FileLists :
        LET r == Ingot_from_files(db, args.name, args.mode, "Local", files, EmptyMap)
        IN  /\ db' = Counted(r.db)
            /\ call' = [op |-> "from_files", name |-> args.name, mode |-> args.mode,
                        file_kind |-> "Local", files |-> files,
                        status |-> r.status, ingot |-> r.ingot, panic |-> r.panic]
            /\ UNCHANGED <<analysed, sink_vec, pushed>>

ModuleNew ==
    /\ MayBuild
    /\ \E name \in {"lib", "a"}, source \in ModuleSources, ingot \in 1..2 :
        LET r == ModuleId_new(db, name, source, ingot)
        IN  /\ db' = Counted(r.db)
            /\ call' = [op |-> "module_new", id |-> r.id,
                        record |-> [name |-> name, ingot |-> ingot, source |-> source]]
            /\ UNCHANGED <<analysed, sink_vec, pushed>>

NewStandalone ==
    /\ MayBuild
    /\ \E path \in StandalonePaths :
        LET r == ModuleId_new_standalone(db, path)
        IN  /\ db' = Counted(r.db)
            /\ call' = [op |-> "new_standalone", path |-> path,
                        status |-> r.status, id |-> r.id]
            /\ UNCHANGED <<analysed, sink_vec, pushed>>

(***************************************************************************)
(* Dependency graphs: walking one, comparing two.                          *)
(***************************************************************************)
WalkLocalDependencies ==
    /\ Idle
    /\ \E g \in WalkGraphs, root \in GraphNodes :
            /\ call' = [op |-> "walk_local_dependencies", graph |-> g, root |-> root,
                        visited |-> walk_local_dependencies(g, root)]
            /\ UNCHANGED world

\* walk_local_dependencies from one root on two graphs built by the same
\* add_edge calls made in opposite orders.
WalkReordered ==
    /\ Idle
    /\ \E ops \in WalkOps, root \in GraphNodes :
        LET g1 == BuildGraph(ops, 1, EmptyGraph)
            g2 == BuildGraph(Reversed(ops), 1, EmptyGraph)
        IN  /\ call' = [op |-> "walk_reordered", graph |-> g1, other |-> g2,
                        root |-> root,
                        visited |-> walk_local_dependencies(g1, root),
                        visited_other |-> walk_local_dependencies(g2, root)]
            /\ UNCHANGED world

(***************************************************************************)
(* walk_local_dependencies step by step: the position of the walk is in    *)
(* `call`.                                                                 *)
(***************************************************************************)
\* Bfs::new(&EdgeFiltered(..), root): root is discovered and queued.
WalkStart ==
    /\ Idle
    /\ \E g \in SteppedGraphs, root \in GraphNodes :
            /\ call' = [op |-> "bfs", graph |-> g, root |-> root, pc |-> "next",
                        queue |-> <<root>>, discovered |-> {root}, visited |-> <<>>]
            /\ UNCHANGED world

Walking == call.op = "bfs" /\ call.pc = "next"

\* bfs.next(&graph) gives Some(node), and fun(node) is called.
WalkNext ==
    /\ Walking
    /\ call.queue # <<>>
    /\ LET node == Head(call.queue)
           v == VisitNeighbors(neighbors(call.graph, node), 1, Tail(call.queue),
                               call.discovered)
       IN  call' = [call EXCEPT !.queue = v.queue, !.discovered = v.discovered,
                                !.visited = Append(@, node)]
    /\ UNCHANGED world

\* bfs.next(&graph) gives None: the loop and the function end.
WalkEnd ==
    /\ Walking
    /\ call.queue = <<>>
    /\ call' = [call EXCEPT !.pc = "done"]
    /\ UNCHANGED world

WalkReturn ==
    /\ call.op = "bfs"
    /\ call.pc = "done"
    /\ call' = NoCall
    /\ UNCHANGED world

GraphEq ==
    /\ Idle
    /\ \E g1 \in ComparedGraphs, g2 \in ComparedGraphs :
            /\ call' = [op |-> "graph_eq", left |-> g1, right |-> g2,
                        result |-> DepGraphWrapper_eq(g1, g2)]
            /\ UNCHANGED world

(***************************************************************************)
(* The default sink: a Vec<Diagnostic> that queries push into.             *)
(***************************************************************************)
SinkPush ==
    /\ Len(sink_vec) < MaxSinkLen
    /\ \E diag \in Diagnostics :
            /\ sink_vec' = Push(sink_vec, diag)
            /\ pushed' = Append(pushed, diag)
            /\ call' = [op |-> "push", diags |-> <<diag>>]
            /\ UNCHANGED <<analysed, db>>

SinkPushAll ==
    \E diags \in DiagnosticLists :
        /\ Len(sink_vec) + Len(diags) <= MaxSinkLen
        /\ sink_vec' = PushAll(sink_vec, diags)
        /\ pushed' = pushed \o diags
        /\ call' = [op |-> "push_all", diags |-> diags]
        /\ UNCHANGED <<analysed, db>>

Next ==
    \/ ResolvePathSegments
    \/ ResolvePath
    \/ ResolvePathNonUsedInternal
    \/ ResolvePathInternal
    \/ ResolveName
    \/ Scopes
    \/ GlobalItems
    \/ ItemItems
    \/ Path
    \/ ResolveInParent
    \/ SinkDiagnostics
    \/ Return

Spec == Init /\ [][Next]_vars

\* The scopes of modules whose submodule and function are named like a
\* dependency, a prelude entry, `ingot` or a declared item.
InitScope ==
    \E mode \in {"Main", "Lib"}, name2 \in ScopeNames, f \in ScopeNames :
        /\ DatabaseOf(mode, TRUE, 1,
                      [name |-> f, module |-> 1, parent |-> NoClass, self_decl |-> FALSE],
                      AllFiles, name2, FALSE)
        /\ Fresh

NextScope ==
    \/ Scopes
    \/ GlobalItems
    \/ Return

SpecScope == InitScope /\ [][NextScope]_vars

\* Names resolved in a contract whose module parsed completely or not and
\* whose function takes self or not.
InitContract ==
    \E name \in MemberNames, parent \in {NoClass, ClassContract(1)},
       self_decl \in BOOLEAN, incomplete1 \in BOOLEAN :
        /\ self_decl => parent # NoClass
        /\ DatabaseOf("Main", TRUE, 1,
                      [name |-> name, module |-> 1, parent |-> parent,
                       self_decl |-> self_decl],
                      AllFiles, "a", incomplete1)
        /\ Fresh

NextContract ==
    \/ ContractResolveName
    \/ Return

SpecContract == InitContract /\ [][NextContract]_vars

\* The diagnostics of ingots whose modules are files, directories or
\* lowered modules.
InitDiag ==
    \E mode \in {"Main", "Lib"}, has_root \in BOOLEAN, parent2 \in {NoId, 1},
       f1 \in Function1Choices, sources \in ModuleSourceChoices :
        /\ has_root => parent2 = 1
        /\ DatabaseOf(mode, has_root, parent2, f1, sources, "a", FALSE)
        /\ Fresh

NextDiag ==
    \/ SinkDiagnostics
    \/ Return

SpecDiag == InitDiag /\ [][NextDiag]_vars

\* The builder applied to a database that starts empty.
InitBuild ==
    /\ Database("Main", TRUE, 1,
                [name |-> "f", module |-> 1, parent |-> NoClass, self_decl |-> FALSE])
    /\ Fresh

NextBuild ==
    \/ FromFiles
    \/ ModuleNew
    \/ NewStandalone

SpecBuild == InitBuild /\ [][NextBuild]_vars

NextSink ==
    \/ SinkPush
    \/ SinkPushAll

SpecSink == InitBuild /\ [][NextSink]_vars

\* One walk at a time; a walk that has started takes its next step.
NextWalk ==
    \/ WalkStart
    \/ WalkNext
    \/ WalkEnd
    \/ WalkReturn

SpecWalk ==
    InitBuild /\ [][NextWalk]_vars /\ WF_vars(WalkNext) /\ WF_vars(WalkEnd)

\* Dependency graphs are values: the operations on them read no database.
NextGraph ==
    \/ WalkLocalDependencies
    \/ WalkReordered
    \/ GraphEq
    \/ Return

SpecGraph == InitBuild /\ [][NextGraph]_vars

(***************************************************************************)
(* Properties                                                              *)
(***************************************************************************)
NotFound(node) == <<Error("unresolved path item", node.span, "not found")>>

\* The item reached after the first k segments when every one of them is a
\* key of the scope of the item reached before it, NoItem otherwise.
RECURSIVE Reached(_, _, _)
Reached(start, segments, k) ==
    IF k = 0 THEN start
    ELSE LET prev == Reached(start, segments, k - 1)
         IN  IF prev = NoItem THEN NoItem
             ELSE Get(Item_items(prev).map, segments[k].kind)

FirstAbsent(start, segments) ==
    CHOOSE k \in 1..Len(segments) :
        /\ Reached(start, segments, k) = NoItem
        /\ Reached(start, segments, k - 1) # NoItem

\* IngotId::items expects a root module ("missing root module").
EveryIngotHasRoot == \A i \in IngotIds : ingot_root_module[i] # NoId

\* C1: in a database where every ingot has its root module,
\* resolve_path_segments returns Some(the item reached after the last
\* segment) and no diagnostics when every lookup succeeds, and otherwise
\* None and the one 'unresolved path item' / 'not found' diagnostic at the
\* span of the first absent segment, having looked up no later segment.
C1_ResolvesOrReportsFirstAbsent ==
    (call.op = "resolve_path_segments" /\ EveryIngotHasRoot) =>
        LET r == call.result
            last == Reached(call.start, call.segments, Len(call.segments))
        IN  /\ r.status = "return"
            /\ IF last # NoItem
               THEN r.value = last /\ r.diagnostics = <<>>
               ELSE LET k == FirstAbsent(call.start, call.segments)
                    IN  /\ r.value = NoItem
                        /\ r.diagnostics = NotFound(call.segments[k])
                        /\ r.examined = k

\* C2: resolve_path_non_used_internal(m, p) with a non-empty p never reads
\* the item map of m itself.
C2_NeverReadsOwnItemMap ==
    (call.op = "resolve_path_non_used_internal" /\ Len(call.segments) >= 1) =>
        call.module \notin call.result.reads

\* C3: items() of an item that is neither an ingot nor a module is the empty
\* map, so a path of one or more segments from it resolves to None with the
\* 'not found' diagnostic at its first segment, and nothing aborts.
C3_LeafItemsHaveEmptyScope ==
    /\ (call.op = "items" /\ call.item.kind \notin {"Ingot", "Module"}) =>
            call.result = Returned(EmptyMap, {})
    /\ (call.op = "resolve_path_segments"
            /\ call.start.kind \notin {"Ingot", "Module"}
            /\ Len(call.segments) >= 1) =>
            /\ call.result.status = "return"
            /\ call.result.value = NoItem
            /\ call.result.diagnostics = NotFound(call.segments[1])

\* C4: sink_diagnostics on a Main or Lib ingot without a root module pushes
\* the missing-module error and nothing else.
C4_MissingRootIsTheOnlyDiagnostic ==
    (call.op = "diagnostics"
        /\ ingot_root_module[call.ingot] = NoId
        /\ ingots[call.ingot].mode \in {"Main", "Lib"}) =>
        /\ call.result.status = "return"
        /\ call.result.sink =
              <<MissingRootDiagnostic(call.ingot,
                    IF ingots[call.ingot].mode = "Lib" THEN "lib" ELSE "main")>>

SubmoduleNames(m) ==
    {modules[Module_submodules(m)[k]].name : k \in 1..Len(Module_submodules(m))}

DeclaredNames(m) ==
    {Item_name(Module_all_items(m)[k]) : k \in 1..Len(Module_all_items(m))}

\* C5: non_used_internal_items(m) has the names of the global items, of the
\* submodules and of the items declared in m, and no name that only a use
\* statement of m brings.
C5_NonUsedIsGlobalSubmodulesDeclared ==
    call.op = "scopes" =>
        DOMAIN call.non_used_internal_items =
            DOMAIN call.global_items \cup SubmoduleNames(call.module)
                \cup DeclaredNames(call.module)

C8_ResolveName ==
    call.op = "resolve_name" =>
        LET present == call.name \in DOMAIN Module_internal_items(call.module)
            r == call.result
        IN  /\ present =>
                /\ r.result = "Ok"
                /\ r.value = Module_internal_items(call.module)[call.name]
                /\ r.value # NoItem
            /\ r.result = "Err" <=> (~present /\ Module_is_incomplete(call.module))
            /\ (r.result = "Ok" /\ r.value = NoItem)
                    <=> (~present /\ ~Module_is_incomplete(call.module))

\* A name that an incomplete module binds, and one that it does not.
C8_Witness ==
    /\ call.op = "resolve_name"
    /\ Module_is_incomplete(call.module)
    /\ call.name \in DOMAIN module_item_map(call.module)
    /\ call.result.result = "Ok"

Occurrences(m, n) ==
    Cardinality({k \in 1..Len(Module_all_items(m)) : Item_name(Module_all_items(m)[k]) = n})
    + Cardinality({k \in 1..Len(Module_submodules(m)) :
                        modules[Module_submodules(m)[k]].name = n})
    + (IF n \in DOMAIN Module_used_items(m) THEN 1 ELSE 0)
    + (IF n \in DOMAIN Module_global_items(m) THEN 1 ELSE 0)

RECURSIVE Up(_, _)
Up(item, k) == IF k = 0 THEN item ELSE Item_parent(Up(item, k - 1))

MaxDepth == Cardinality(ModuleIds) + 2

EndsAtIngot(item) == \E k \in 1..MaxDepth : Up(item, k).kind = "Ingot"

\* The number of items on the chain below the ingot.
Depth(item) == CHOOSE k \in 1..MaxDepth : Up(item, k).kind = "Ingot"

\* C10: for an item whose parent chain ends at an ingot, path(i) is the
\* names of the items of the chain below the ingot, outermost first, and is
\* path(parent(i)) followed by name(i) when the parent is not an ingot.
C10_PathIsChainNames ==
    (call.op = "path" /\ EndsAtIngot(call.item)) =>
        LET n == Depth(call.item)
        IN  /\ Len(call.result) = n
            /\ \A j \in 1..n : call.result[j] = Item_name(Up(call.item, n - j))
            /\ "app" \notin {call.result[j] : j \in 1..Len(call.result)}
            /\ Item_parent(call.item).kind # "Ingot" =>
                   call.result = Append(Item_path(Item_parent(call.item)),
                                        Item_name(call.item))

\* An item three or more levels below its ingot.
C10_Witness ==
    /\ call.op = "path"
    /\ EndsAtIngot(call.item)
    /\ Depth(call.item) >= 3
    /\ call.result[1] # call.result[Len(call.result)]

\* C11 as stated: global_items(m) binds every external-dependency name to
\* Item::Ingot of the dependency, binds 'ingot' to Item::Ingot(m.ingot())
\* exactly when the mode is not StandaloneModule, and its keys are the
\* prelude names, the dependency names and (unless standalone) 'ingot'.
C11_GlobalItemsBindDependencies ==
    call.op = "global_items" =>
        LET ingot == modules[call.module].ingot
            standalone == ingots[ingot].mode = "StandaloneModule"
        IN  /\ \A n \in DOMAIN call.deps :
                    Get(call.result, n) = ItemIngot(call.deps[n])
            /\ (Get(call.result, "ingot") = ItemIngot(ingot)) <=> ~standalone
            /\ DOMAIN call.result =
                    DOMAIN std_prelude_items \cup DOMAIN call.deps
                        \cup (IF standalone THEN {} ELSE {"ingot"})

\* C12: global_items(m) binds every prelude name to the item
\* std_prelude_items binds it to, whatever the names of the external
\* ingots and whatever the mode of the ingot.
C12_PreludeIsTotal ==
    /\ call.op = "global_items" =>
            \A n \in DOMAIN std_prelude_items :
                Get(call.result, n) = std_prelude_items[n]
    /\ call.op = "scopes" =>
            \A n \in DOMAIN std_prelude_items :
                Get(call.global_items, n) = std_prelude_items[n]

\* An external ingot that has the name of a primitive type.
C12_Witness ==
    /\ call.op = "global_items"
    /\ "bool" \in DOMAIN call.deps
    /\ call.result["bool"] = ItemPrimitive(1)
    /\ ingots[modules[call.module].ingot].mode = "StandaloneModule"

\* The modules registered for the ingot the call returned.
BuiltModules == db.ingot_modules[call.ingot]

BuiltSrcDir == db.ingots[call.ingot].src_dir

Stripped(path) == strip_prefix(Components(path), BuiltSrcDir)

\* The non-empty ancestor directories of the files, relative to src_dir,
\* for which the list has no file `<dir>.fe`.
BareDirectories(files) ==
    {dir \in UNION {{SubSeq(Stripped(files[k]), 1, n) : n \in 1..(Len(Stripped(files[k])) - 1)} :
                        k \in 1..Len(files)} :
        ~\E j \in 1..Len(files) :
            /\ files[j].fes = 1
            /\ Stripped(files[j]) # <<>>
            /\ Append(SubSeq(Stripped(files[j]), 1, Len(Stripped(files[j])) - 1),
                      files[j].base) = dir}

Positions(seq, P(_)) == {k \in 1..Len(seq) : P(seq[k])}

\* C13 as stated: from_files registers one File module for each file, named
\* by the file stem, and one Dir module, named by the last component, for
\* each ancestor directory that has no file `<dir>.fe` in the list, and no
\* other module; for [src/lib.fe, src/a/b/x.fe, src/a/c/d/y.fe] the names
\* are lib, a, b, c, d, x, y.
C13_FileAndDirModules ==
    (call.op = "from_files" /\ call.status = "return") =>
        LET mods == [k \in 1..Len(BuiltModules) |-> db.modules[BuiltModules[k]]]
            files == call.files
        IN  /\ \A k \in 1..Len(files) :
                    Cardinality(Positions(mods, LAMBDA m :
                        /\ m.source = SourceFile(call.file_kind, files[k])
                        /\ m.name = file_stem(files[k])
                        /\ m.ingot = call.ingot)) = 1
            /\ Cardinality(Positions(mods, LAMBDA m : m.source.tag = "File")) = Len(files)
            /\ \A dir \in BareDirectories(files) :
                    Cardinality(Positions(mods, LAMBDA m :
                        /\ m.source = SourceDir(dir)
                        /\ m.name = dir[Len(dir)]
                        /\ m.ingot = call.ingot)) = 1
            /\ Cardinality(Positions(mods, LAMBDA m : m.source.tag = "Dir"))
                    = Cardinality(BareDirectories(files))
            /\ Len(files) = 3 /\ files[1] = LibFe /\ files[2].base = "x" =>
                    {mods[k].name : k \in 1..Len(mods)}
                        = {"lib", "a", "b", "c", "d", "x", "y"}

\* C14: from_files stores as src_dir the parent directory of the file when
\* the list has one file, and then registers the one module named by the
\* file stem and no Dir module; with two or more files src_dir is the
\* longest common prefix of the file paths.
C14_SrcDir ==
    (call.op = "from_files" /\ call.status = "return") =>
        LET files == call.files
            src_dir == BuiltSrcDir
        IN  /\ Len(files) = 1 =>
                /\ src_dir = files[1].dirs
                /\ Len(BuiltModules) = 1
                /\ db.modules[BuiltModules[1]].name = file_stem(files[1])
                /\ db.modules[BuiltModules[1]].source.tag = "File"
            /\ Len(files) >= 2 =>
                /\ \A k \in 1..Len(files) : IsPrefix(src_dir, Components(files[k]))
                /\ \/ \E k \in 1..Len(files) : Len(Components(files[k])) = Len(src_dir)
                   \/ \E j, k \in 1..Len(files) :
                        Components(files[j])[Len(src_dir) + 1]
                            # Components(files[k])[Len(src_dir) + 1]

\* One file that has a parent directory: src_dir is that directory.
C14_Witness ==
    /\ call.op = "from_files"
    /\ call.status = "return"
    /\ Len(call.files) = 1
    /\ BuiltSrcDir = <<"src">>
    /\ db.modules[BuiltModules[1]].name = "main"

NoDuplicates(table) ==
    \A i, j \in 1..Len(table) : table[i] = table[j] => i = j

\* What a step of the builder does to the tables of the interner.
InterningStep ==
    /\ NoDuplicates(db'.modules) /\ NoDuplicates(db'.ingots)
    /\ Len(db'.modules) >= Len(db.modules) /\ Len(db'.ingots) >= Len(db.ingots)
    /\ \A id \in 1..Len(db.modules) : ModuleId_data(db', id) = ModuleId_data(db, id)
    /\ \A id \in 1..Len(db.ingots) : db'.ingots[id] = db.ingots[id]
    /\ call'.op = "module_new" =>
            /\ ModuleId_data(db', call'.id) = call'.record
            /\ IF LookupId(db.modules, call'.record) # NoId
               THEN call'.id = LookupId(db.modules, call'.record) /\ db'.modules = db.modules
               ELSE call'.id = Len(db.modules) + 1
    /\ (call'.op = "from_files" /\ call'.status = "return") =>
            /\ db'.ingots[call'.ingot].name = call'.name
            /\ db'.ingots[call'.ingot].mode = call'.mode
            /\ \A id \in 1..Len(db.ingots) :
                    (db.ingots[id].name = call'.name /\ db.ingots[id].mode = call'.mode
                        /\ db.ingots[id].src_dir = db'.ingots[call'.ingot].src_dir)
                    => call'.ingot = id

\* C15: across any sequence of builder calls, interning a record that was
\* interned before returns the ID it has and interning a new record a new
\* ID, no two IDs denote equal records, and an ID keeps denoting the record
\* it was issued for.
C15_InterningIsIdempotentAndInjective == [][InterningStep]_vars

\* ModuleId::new for a record that an earlier call interned.
C15_Witness ==
    /\ call.op = "module_new"
    /\ db.calls = 2
    /\ call.id < Len(db.modules)

\* C16: new_standalone returns the root module of an ingot named "" of mode
\* StandaloneModule whose modules are that one File module and whose
\* external ingots are "std", the standard library; and every
\* StandaloneModule ingot has a root module, so sink_diagnostics never
\* reaches the StandaloneModule branch of its missing-root check.
C16_StandaloneHasRoot ==
    /\ (call.op = "new_standalone") =>
            /\ call.status = "return"
            /\ LET m == ModuleId_data(db, call.id)
                   data == db.ingots[m.ingot]
                   deps == db.ingot_external_ingots[m.ingot]
               IN  /\ data.name = "" /\ data.mode = "StandaloneModule"
                   /\ db.ingot_modules[m.ingot] = <<call.id>>
                   /\ m.source = SourceFile("Local", call.path)
                   /\ m.name = file_stem(call.path)
                   /\ Db_root_module(db, m.ingot) = call.id
                   /\ DOMAIN deps = {"std"}
                   /\ db.ingots[deps["std"]].name = "std"
                   /\ db.ingots[deps["std"]].mode = "Lib"
                   /\ Len(db.ingot_modules[deps["std"]]) = Len(StdSrcFiles)
    /\ \A ingot \in 1..Len(db.ingots) :
            db.ingots[ingot].mode = "StandaloneModule" =>
                /\ ingot \in DOMAIN db.ingot_modules
                /\ Db_root_module(db, ingot) # NoId

\* A second standalone module built from a file of the same directory.
C16_Witness ==
    /\ call.op = "new_standalone"
    /\ db.calls = 2
    /\ Cardinality({i \in 1..Len(db.ingots) : db.ingots[i].mode = "StandaloneModule"}) = 1
    /\ Cardinality({m \in 1..Len(db.modules) : db.modules[m].source.kind = "Local"}) = 2

\* The nodes a path of Local edges leads to from root, root included.
RECURSIVE LocalClosure(_, _)
LocalClosure(g, reached) ==
    LET more == reached \cup
                {g.edges[k].to : k \in {j \in 1..Len(g.edges) :
                    g.edges[j].from \in reached /\ g.edges[j].weight = "Local"}}
    IN  IF more = reached THEN reached ELSE LocalClosure(g, more)

\* C17 as stated: walk_local_dependencies calls f once on root and once on
\* every node that a path of Local edges reaches from root, and on no other
\* node.
C17_WalkVisitsLocalClosureOnce ==
    call.op = "walk_local_dependencies" =>
        /\ \A i, j \in 1..Len(call.visited) :
                call.visited[i] = call.visited[j] => i = j
        /\ {call.visited[k] : k \in 1..Len(call.visited)}
                = LocalClosure(call.graph, {call.root})

\* C18 as stated: two graphs are equal under DepGraphWrapper::eq exactly
\* when they have the same nodes and the same labelled edges, in whatever
\* order these were added.
C18_GraphEqualityIsStructural ==
    call.op = "graph_eq" =>
        (call.result <=> DepGraphWrapper_eq_Sets(call.left, call.right))

\* C19 as stated: a diagnostic that was pushed more than once is in the
\* collected list only once.
C19_SinkHoldsNoDuplicates ==
    \A i, j \in 1..Len(sink_vec) : sink_vec[i] = sink_vec[j] => i = j

\* push on each element of a list, in order.
RECURSIVE PushEach(_, _, _)
PushEach(s, diags, k) ==
    IF k > Len(diags) THEN s ELSE PushEach(Push(s, diags[k]), diags, k + 1)

\* What a push or push_all does to the sink.
SinkStep ==
    /\ sink_vec' = pushed'
    /\ IsPrefix(sink_vec, sink_vec')
    /\ Len(sink_vec') = Len(sink_vec) + Len(call'.diags)
    /\ call'.op = "push_all" => sink_vec' = PushEach(sink_vec, call'.diags, 1)

\* C20: the sink holds the pushed diagnostics in call order, a push_all in
\* iterator order; no call removes or reorders an earlier entry; and
\* push_all leaves the sink as a push of each element in order does.
C20_SinkKeepsCallOrder == [][SinkStep]_vars

\* A push_all of two different diagnostics onto a sink that holds others.
C20_Witness ==
    /\ call.op = "push_all"
    /\ Len(call.diags) = 2
    /\ call.diags[1] # call.diags[2]
    /\ Len(sink_vec) = 4
    /\ sink_vec[1] = sink_vec[3]

\* C21: resolving an empty segment list returns the starting item (for
\* ModuleId::resolve_path the module itself) with no diagnostics, and reads
\* no scope map.
C21_EmptyPathReturnsStart ==
    /\ (call.op = "resolve_path_segments" /\ call.segments = <<>>) =>
            /\ call.result.status = "return"
            /\ call.result.value = call.start
            /\ call.result.diagnostics = <<>>
            /\ call.result.reads = {}
            /\ call.result.examined = 0
    /\ (call.op = "resolve_path" /\ call.segments = <<>>) =>
            /\ call.result.status = "return"
            /\ call.result.value = ItemModule(call.module)
            /\ call.result.diagnostics = <<>>
            /\ call.result.reads = {}
            /\ call.result.examined = 0

\* The empty path resolved from a contract, whose scope cannot be read.
C21_Witness ==
    /\ call.op = "resolve_path_segments"
    /\ call.segments = <<>>
    /\ call.start = ItemContract(1)
    /\ Item_items(call.start).status = "panic"

\* The diagnostics of the items from the k-th on, one item after another.
RECURSIVE ItemStreams(_, _)
ItemStreams(items, k) ==
    IF k > Len(items) THEN <<>>
    ELSE ItemDiagnostics(items[k]) \o ItemStreams(items, k + 1)

\* A module's own stream of diagnostics.
ModuleStream(m) ==
    (IF modules[m].source = "File" THEN ModuleParseDiagnostics(m) ELSE <<>>)
    \o PragmaDiagnostics(m)
    \o ModuleItemMapDiagnostics(m)
    \o ItemStreams(Module_all_items(m), 1)

\* The streams of the modules from the k-th on, one module after another.
RECURSIVE ModuleStreams(_, _)
ModuleStreams(ms, k) ==
    IF k > Len(ms) THEN <<>>
    ELSE ModuleStream(ms[k]) \o ModuleStreams(ms, k + 1)

\* C22: IngotId::diagnostics is the missing-root error (if any), then for
\* each module in all_modules order its own stream: parse diagnostics (File
\* modules only), pragma errors, duplicate-name diagnostics of the item map,
\* then the diagnostics of each item in all_items order.
C22_DiagnosticsAreFlattenedInOrder ==
    call.op = "diagnostics" =>
        /\ call.result.status = "return"
        /\ call.result.sink =
              (IF ingot_root_module[call.ingot] = NoId
               THEN <<MissingRootDiagnostic(call.ingot,
                         IF ingots[call.ingot].mode = "Lib" THEN "lib" ELSE "main")>>
               ELSE <<>>)
              \o ModuleStreams(Ingot_all_modules(call.ingot), 1)

\* An ingot without its root module that has a module with parse
\* diagnostics that is not a file, and a duplicate name in its first module.
C22_Witness ==
    /\ call.op = "diagnostics"
    /\ call.ingot = AppIngot
    /\ ingot_root_module[AppIngot] = NoId
    /\ modules[2].source # "File"
    /\ ModuleParseDiagnostics(2) # <<>>
    /\ ModuleItemMapDiagnostics(1) # <<>>
    /\ Len(call.result.sink) >= 4

SetOf(seq) == {seq[k] : k \in 1..Len(seq)}

\* The nodes that paths of at most k Local edges reach from root.
RECURSIVE LocalWithin(_, _, _)
LocalWithin(g, root, k) ==
    IF k = 0 THEN {root}
    ELSE LET near == LocalWithin(g, root, k - 1)
         IN  near \cup {e.to : e \in {x \in SetOf(g.edges) :
                                        x.from \in near /\ x.weight = "Local"}}

\* The Local-edge distance of a node from root; a node that no Local path
\* reaches is farther than every node that one reaches.
LocalDistance(g, root, n) ==
    IF \E k \in 0..Len(g.nodes) : n \in LocalWithin(g, root, k)
    THEN CHOOSE k \in 0..Len(g.nodes) :
            /\ n \in LocalWithin(g, root, k)
            /\ \A j \in 0..(k - 1) : n \notin LocalWithin(g, root, j)
    ELSE Len(g.nodes) + 1

BreadthFirst(g, root, visited) ==
    /\ visited[1] = root
    /\ \A i, j \in 1..Len(visited) :
            i < j => LocalDistance(g, root, visited[i]) <= LocalDistance(g, root, visited[j])

\* C23 as stated: the walk visits root first and then nodes in
\* non-decreasing Local-edge distance from root, and two graphs with the
\* same node set and edge set yield the same visiting sequence from the same
\* root, whatever the order in which their edges were inserted.
C23_WalkOrderIsFixedByNodeIds ==
    call.op = "walk_reordered" =>
        /\ BreadthFirst(call.graph, call.root, call.visited)
        /\ BreadthFirst(call.other, call.root, call.visited_other)
        /\ (/\ SetOf(call.graph.nodes) = SetOf(call.other.nodes)
            /\ SetOf(call.graph.edges) = SetOf(call.other.edges))
                => call.visited = call.visited_other

IsBuild(c) == c.op \in {"from_files", "new_standalone"} /\ c.status = "return"

\* The files a builder call was given, and the ingot it made.
GivenFiles(c) == IF c.op = "from_files" THEN c.files ELSE <<c.path>>

MadeIngot(d, c) == IF c.op = "from_files" THEN c.ingot ELSE d.modules[c.id].ingot

\* A builder call that follows a builder call that was given other files.
LaterBuildStep ==
    (IsBuild(call) /\ IsBuild(call') /\ GivenFiles(call') # GivenFiles(call)) =>
        LET earlier == MadeIngot(db, call)
            mods == db.ingot_modules[earlier]
        IN  /\ MadeIngot(db', call') # earlier
            /\ db'.ingot_modules[earlier] = mods
            /\ db'.ingot_external_ingots[earlier] = db.ingot_external_ingots[earlier]
            /\ \A k \in 1..Len(mods) :
                    \E j \in 1..Len(db'.ingot_modules[db'.modules[mods[k]].ingot]) :
                        db'.ingot_modules[db'.modules[mods[k]].ingot][j] = mods[k]

\* C24 as stated: a later from_files or new_standalone call that was given
\* different files returns a different IngotId and leaves the module list and
\* the dependency map of the ingot of the earlier call unchanged, every
\* module of the earlier call still being in all_modules of its own ingot.
C24_LaterBuildsLeaveEarlierIngots == [][LaterBuildStep]_vars

\* The binding of name n when the layers are searched from the strongest on.
Strongest(n, layers) ==
    layers[CHOOSE k \in 1..Len(layers) :
                /\ n \in DOMAIN layers[k]
                /\ \A j \in 1..(k - 1) : n \notin DOMAIN layers[j]][n]

Layered(map, layers) ==
    /\ DOMAIN map = UNION {DOMAIN layers[k] : k \in 1..Len(layers)}
    /\ \A n \in DOMAIN map : map[n] = Strongest(n, layers)

\* C25: a global item replaces a submodule of the same name in
\* non_used_internal_items and internal_items; in internal_items an entry
\* of the item map replaces both; in global_items a prelude entry replaces
\* an external dependency of the same name and `ingot` (unless standalone)
\* replaces a dependency named `ingot`.
C25_ScopeLayersHaveFixedPrecedence ==
    /\ call.op = "scopes" =>
        LET subs == ModuleEntries(Module_submodules(call.module), 1)
        IN  /\ Layered(call.non_used_internal_items, <<call.global_items, subs>>)
            /\ Layered(call.internal_items, <<call.items, call.global_items, subs>>)
    /\ call.op = "global_items" =>
        LET ingot == modules[call.module].ingot
            deps == [n \in DOMAIN call.deps |-> ItemIngot(call.deps[n])]
            own == IF ingots[ingot].mode # "StandaloneModule"
                   THEN Entry("ingot", ItemIngot(ingot)) ELSE EmptyMap
        IN  Layered(call.result, <<own, std_prelude_items, deps>>)

\* A module whose submodule is named like the dependency `std` and that
\* declares a function named `std`.
C25_Witness ==
    /\ call.op = "scopes"
    /\ call.module = 1
    /\ "std" \in DOMAIN ModuleEntries(Module_submodules(1), 1)
    /\ functions[1].name = "std"
    /\ call.non_used_internal_items["std"] = ItemIngot(StdIngot)
    /\ call.internal_items["std"] = call.items["std"]
    /\ call.items["std"] # ItemIngot(StdIngot)

\* C26: ContractId::resolve_name returns the contract function called name
\* when there is one that does not take self; otherwise the contract event
\* called name when there is one (also when a function that takes self has
\* the name); otherwise what resolve_name gives on the contract's module,
\* its IncompleteItem error included.  A function that takes self is never
\* returned as a member of the contract.
C26_ContractResolveName ==
    call.op = "contract_resolve_name" =>
        LET c == call.contract
            Member(f) == /\ functions[f].parent = ClassContract(c)
                         /\ functions[f].name = call.name
            Free == {f \in FunctionIds : Member(f) /\ ~functions[f].self_decl}
            Events == {e \in EventIds : /\ EventData(e).contract = c
                                        /\ EventData(e).name = call.name}
        IN  /\ Free # {} =>
                    /\ call.result.result = "Ok"
                    /\ \E f \in Free : call.result.value = ItemFunction(f)
            /\ (Free = {} /\ Events # {}) =>
                    /\ call.result.result = "Ok"
                    /\ \E e \in Events : call.result.value = ItemEvent(e)
            /\ (Free = {} /\ Events = {}) =>
                    call.result = Module_resolve_name(ContractData(c).module, call.name)
            /\ \A f \in FunctionIds :
                    (Member(f) /\ functions[f].self_decl) =>
                        call.result.value # ItemFunction(f)

\* The name of a function of the contract that takes self and of an event
\* of the contract.
C26_Witness ==
    /\ call.op = "contract_resolve_name"
    /\ call.name = "E"
    /\ functions[1].parent = ClassContract(1)
    /\ functions[1].name = "E"
    /\ functions[1].self_decl
    /\ call.result.value = ItemEvent(1)

CalledOnce(visited) == \A i, j \in 1..Len(visited) : visited[i] = visited[j] => i = j

WalkFinished == call.op = "bfs" /\ call.pc = "done"

\* C27 as stated: every walk ends, and f is called on nodes of the graph
\* only, at most once on each.
C27_WalkEndsWithinGraphNodes ==
    /\ [](call.op = "bfs" =>
            /\ CalledOnce(call.visited)
            /\ SetOf(call.visited) \subseteq SetOf(call.graph.nodes))
    /\ (call.op = "bfs") ~> WalkFinished

\* C27 amended: every walk ends, on graphs with cycles and self-loops too,
\* and f is called at most once on root and at most once on each node of
\* the graph, and on nothing else.
C27_WalkEndsWithinRootAndNodes ==
    /\ [](call.op = "bfs" =>
            /\ CalledOnce(call.visited)
            /\ SetOf(call.visited) \subseteq SetOf(call.graph.nodes) \cup {call.root}
            /\ Len(call.visited) <= Cardinality(SetOf(call.graph.nodes) \cup {call.root}))
    /\ (call.op = "bfs") ~> WalkFinished

\* A finished walk from a node with a Local self-loop that is on a cycle of
\* Local edges.
C27_Witness ==
    /\ WalkFinished
    /\ \E e \in SetOf(call.graph.edges) :
            e.from = call.root /\ e.to = call.root /\ e.weight = "Local"
    /\ \E e1, e2 \in SetOf(call.graph.edges) :
            /\ e1.from = call.root /\ e1.to # call.root /\ e1.weight = "Local"
            /\ e2.from = e1.to /\ e2.to = call.root /\ e2.weight = "Local"
    /\ Len(call.visited) = 2

\* A from_files call with no file.
EmptyListStep ==
    (call'.op = "from_files" /\ call'.files = <<>>) =>
        /\ call'.status = "panic"
        /\ call'.panic = "IngotId::from_files: empty file list"
        /\ call'.ingot = NoId
        /\ db'.ingots = db.ingots
        /\ db'.modules = db.modules
        /\ db'.ingot_modules = db.ingot_modules
        /\ db'.ingot_external_ingots = db.ingot_external_ingots

\* C28: from_files with an empty file list aborts with
\* '`IngotId::from_files`: empty file list' before anything is interned or
\* registered.
C28_EmptyFileListAbortsFirst == [][EmptyListStep]_vars

\* from_files with no file on a database that holds an ingot and modules.
C28_Witness ==
    /\ call.op = "from_files"
    /\ call.files = <<>>
    /\ call.status = "panic"
    /\ Len(db.ingots) >= 1
    /\ Len(db.modules) >= 2
    /\ db.calls = 2

====
